---- MODULE Spec2Model ----
(***************************************************************************)
(* A model of the Genie client (src/genie-gradio/libs/genie.py) and of the *)
(* Gradio session handlers that drive it (src/genie-gradio/app.py).        *)
(*                                                                         *)
(* Python values are modelled as follows.                                  *)
(*   - a str is a string; a missing key / None string is Absent;           *)
(*   - a room id and a conversation id are naturals, 0 standing for the    *)
(*     empty string "" (falsy in Python);                                  *)
(*   - a dict is a record that carries a has_<key> flag for every key the  *)
(*     code looks up;                                                      *)
(*   - the result of a call is a record [kind, exc, value]: kind "value"   *)
(*     (a return value), "None" (the call returned None) or "raise" (an    *)
(*     exception left the call; exc names its class).                      *)
(***************************************************************************)
EXTENDS Integers, Sequences, FiniteSets, TLC

(***************************************************************************)
(* Bounds of the model.                                                    *)
(***************************************************************************)
MaxRooms == 2
MaxQuestions == 1
MaxAttachments == 2
MaxCols == 2
MaxRows == 2
MaxConversations == 2
MaxPeriodCalls == 6

(***************************************************************************)
(* Program constants.                                                      *)
(***************************************************************************)
MAX_RETRIES == 3
CALLS_PER_SECOND == 5

\* status_forcelist without 503.
status_forcelist_without_503 == {500, 502, 504}

status_forcelist == {500, 502, 503, 504}

\* urllib3.util.retry.Retry.RETRY_AFTER_STATUS_CODES: with the default
\* respect_retry_after_header=True these are retried when the response
\* carries a Retry-After header.
RETRY_AFTER_STATUS_CODES == {413, 429, 503}

Absent == "<absent>"

SeqsUpTo(S, n) == UNION {[1..k -> S] : k \in 0..n}

(***************************************************************************)
(* Results of calls.                                                       *)
(***************************************************************************)
NoValue == <<>>

Value(v) == [kind |-> "value", exc |-> "", value |-> v]

ReturnNone == [kind |-> "None", exc |-> "", value |-> NoValue]

Raise(e) == [kind |-> "raise", exc |-> e, value |-> NoValue]

\* The typed failures of the client (genie.py:16-31).
GenieErrors == {"GenieAuthenticationError", "GenieAPIError"}

(***************************************************************************)
(* The remote HTTP service: what it may answer to one request.             *)
(*   net = "ok": a response with a status (retry_after: it carries a       *)
(*   Retry-After header); net = "timeout": no response (timeout or         *)
(*   connection failure).                                                  *)
(***************************************************************************)
HttpResponse(s, ra) == [net |-> "ok", status |-> s, retry_after |-> ra]

HttpTimeout == [net |-> "timeout", status |-> 0, retry_after |-> FALSE]

ServerAnswers ==
    {HttpResponse(s, FALSE) : s \in {200, 401, 429, 500, 502, 503, 504}}
        \cup {HttpResponse(429, TRUE), HttpTimeout}

\* What the service answers to the first request of a call and to each
\* retry of it: one answer per attempt the Retry object allows.
Scripts == [1..(MAX_RETRIES + 1) -> ServerAnswers]

(***************************************************************************)
(* session.get through the HTTPAdapter mounted with                        *)
(* Retry(total=MAX_RETRIES, backoff_factor=0.5, status_forcelist=...).     *)
(* GET is an idempotent method, so it is retryable.                        *)
(***************************************************************************)
\* Retry.is_retry(method, status_code, has_retry_after)
is_retry(total, answer) ==
    \/ answer.status \in status_forcelist
    \/ /\ total # 0
       /\ answer.retry_after
       /\ answer.status \in RETRY_AFTER_STATUS_CODES

\* Retry.increment followed by Retry.is_exhausted: total - 1 < 0.
is_exhausted(total) == total - 1 < 0

RECURSIVE urlopen(_, _, _)
urlopen(script, i, total) ==
    LET answer == script[i] IN
    IF answer.net = "timeout"
    THEN IF is_exhausted(total)
         THEN [kind |-> "raise", exc |-> "ConnectionError", status |-> 0,
               attempts |-> i]
         ELSE urlopen(script, i + 1, total - 1)
    ELSE IF is_retry(total, answer)
    THEN IF is_exhausted(total)
         THEN [kind |-> "raise", exc |-> "RetryError", status |-> 0,
               attempts |-> i]
         ELSE urlopen(script, i + 1, total - 1)
    ELSE [kind |-> "response", exc |-> "", status |-> answer.status,
          attempts |-> i]

session_get(script) == urlopen(script, 1, MAX_RETRIES)

\* The answers a call consumed: the requests it sent.
Trace(script) == SubSeq(script, 1, session_get(script).attempts)

(***************************************************************************)
(* GenieHandler._handle_response: raise_for_status(), then json().         *)
(***************************************************************************)
_handle_response(status, is_json) ==
    IF status >= 400 /\ status < 600
    THEN IF status = 401
         THEN Raise("GenieAuthenticationError")
         ELSE Raise("GenieAPIError")
    ELSE IF is_json
    THEN Value(NoValue)
    ELSE Raise("JSONDecodeError")

\* The shape shared by the four GET operations: session.get, then
\* _handle_response inside try / except (GenieAuthenticationError,
\* GenieAPIError): return None. Any other exception leaves the call.
\* unwrap(payload) is what the operation returns from the parsed body.
GetOperation(http, is_json, unwrapped) ==
    IF http.kind = "raise"
    THEN Raise(http.exc)
    ELSE LET data == _handle_response(http.status, is_json) IN
         IF data.kind = "raise"
         THEN IF data.exc \in GenieErrors THEN ReturnNone ELSE Raise(data.exc)
         ELSE unwrapped

\* dict.get(key): the value, or None when the key is missing.
DictGet(has_key, v) == IF has_key THEN Value(v) ELSE ReturnNone

(***************************************************************************)
(* The data the remote service returns.                                    *)
(***************************************************************************)
RoomNames == <<"Sales", "Ops", "HR", "Finance">>

Room(i) == [space_id |-> i, display_name |-> RoomNames[i]]

Catalogue == [i \in 1..MaxRooms |-> Room(i)]

\* The listings the service may return: the first k rooms of its catalogue.
RoomListings == {SubSeq(Catalogue, 1, k) : k \in 0..MaxRooms}

\* The parsed body of GET data-rooms: {"data_rooms": [...]} or a body
\* without that key.
RoomsBodies ==
    {[has_data_rooms |-> TRUE, data_rooms |-> l] : l \in RoomListings}
        \cup {[has_data_rooms |-> FALSE, data_rooms |-> <<>>]}

Questions == {[question_text |-> "Top customers?"]}

QuestionsBodies ==
    {[has_curated_questions |-> TRUE, curated_questions |-> l] :
        l \in SeqsUpTo(Questions, MaxQuestions)}
        \cup {[has_curated_questions |-> FALSE, curated_questions |-> <<>>]}

\* An attachment: text is text.content (Absent: no text, or a text without
\* content); has_query: a non-empty query dict; description is
\* query.description (Absent: none).
Attachments ==
    {[text |-> t, has_query |-> FALSE, description |-> Absent] :
        t \in {Absent, "Hello"}}
        \cup {[text |-> t, has_query |-> TRUE, description |-> d] :
                t \in {Absent, "Hello"},
                d \in {Absent, "", "Orders by month"}}

EmptyAttachment == [text |-> Absent, has_query |-> FALSE, description |-> Absent]

MessageStatus == {"COMPLETED", "FAILED", "CANCELLED"}

\* GenieMessage, the object the SDK's *_and_wait calls return.
GenieMessage(st, cid, mid, atts) ==
    [status |-> st, conversation_id |-> cid, id |-> mid, attachments |-> atts]

\* GenieMessage.as_dict(): a field is written only when it is set, and the
\* attachments list only when it is not empty.
as_dict(m) ==
    [status |-> m.status, conversation_id |-> m.conversation_id, id |-> m.id,
     has_attachments |-> m.attachments # <<>>, attachments |-> m.attachments]

\* The raw query result.  missing names the key of the path
\* statement_response / manifest / schema / columns and
\* statement_response / result / data_typed_array that the body lacks ("":
\* none); what lies under a missing key is empty.
Cell == [has_str |-> TRUE, str |-> "42"]

\* A value without the "str" key.
BadCell == [has_str |-> FALSE, str |-> Absent]

\* The rows of data_typed_array: any number of values up to MaxCols,
\* whatever the number of columns; a row holding a value without "str";
\* a row without "values".
RowEntries ==
    {[has_values |-> TRUE, values |-> v] : v \in SeqsUpTo({Cell}, MaxCols)}
        \cup {[has_values |-> TRUE, values |-> <<BadCell>>],
              [has_values |-> FALSE, values |-> <<>>]}

Column == [has_name |-> TRUE, name |-> "month"]

\* A column without the "name" key.
BadColumn == [has_name |-> FALSE, name |-> Absent]

ColLists == SeqsUpTo({Column}, MaxCols) \cup {<<BadColumn>>}

DataLists == SeqsUpTo(RowEntries, MaxRows)

RawResult(m, c, d) == [missing |-> m, columns |-> c, data |-> d]

RawResults ==
    {RawResult("", c, d) : c \in ColLists, d \in DataLists}
        \cup {RawResult("statement_response", <<>>, <<>>)}
        \cup {RawResult(m, <<>>, d) :
                m \in {"manifest", "schema", "columns"}, d \in DataLists}
        \cup {RawResult(m, c, <<>>) :
                m \in {"result", "data_typed_array"}, c \in ColLists}

(***************************************************************************)
(* The operations of GenieHandler.                                         *)
(***************************************************************************)
get_genie_rooms(http, is_json, body) ==
    GetOperation(http, is_json, DictGet(body.has_data_rooms, body.data_rooms))

get_curated_questions(http, is_json, body) ==
    GetOperation(http, is_json,
                 DictGet(body.has_curated_questions, body.curated_questions))

get_message(http, is_json, body) == GetOperation(http, is_json, Value(body))

get_query_result(http, is_json, body) == GetOperation(http, is_json, Value(body))

\* What start_conversation_and_wait / create_message_and_wait end with: a
\* message in some status, or an exception.
SdkReturn(m) == [kind |-> "return", message |-> m]

SdkRaise == [kind |-> "raise", message |-> GenieMessage("FAILED", 0, 0, <<>>)]

start_conversation(sdk) ==
    IF sdk.kind = "raise"
    THEN ReturnNone
    ELSE IF sdk.message.status = "COMPLETED"
    THEN Value(as_dict(sdk.message))
    ELSE ReturnNone

create_message(sdk) ==
    IF sdk.kind = "raise"
    THEN ReturnNone
    ELSE IF sdk.message.status = "COMPLETED"
    THEN Value(as_dict(sdk.message))
    ELSE ReturnNone

\* A KeyError inside transform_query_result: a key of the path is missing,
\* a column has no "name", a row no "values" or a value no "str".
HasKeyError(raw) ==
    \/ raw.missing # ""
    \/ \E i \in DOMAIN raw.columns : ~raw.columns[i].has_name
    \/ \E i \in DOMAIN raw.data : ~raw.data[i].has_values
    \/ \E i \in DOMAIN raw.data :
          \E j \in DOMAIN raw.data[i].values : ~raw.data[i].values[j].has_str

Table(c, r) == [columns |-> c, rows |-> r]

\* transform_query_result reading row["values"][1:]: the first value of
\* every row is left out.
transform_skipping_first_value(query_result) ==
    IF query_result.kind = "None"
    THEN Raise("TypeError")
    ELSE LET raw == query_result.value IN
         IF HasKeyError(raw)
         THEN Value(Table(<<>>, <<>>))
         ELSE Value(Table(
                [i \in DOMAIN raw.columns |-> raw.columns[i].name],
                [i \in DOMAIN raw.data |->
                    [j \in 1..(Len(raw.data[i].values) - 1) |->
                        raw.data[i].values[j + 1].str]]))

\* query_result is the result of get_query_result: None is not
\* subscriptable, and only KeyError is caught.
transform_query_result(query_result) ==
    IF query_result.kind = "None"
    THEN Raise("TypeError")
    ELSE LET raw == query_result.value IN
         IF HasKeyError(raw)
         THEN Value(Table(<<>>, <<>>))
         ELSE Value(Table(
                [i \in DOMAIN raw.columns |-> raw.columns[i].name],
                [i \in DOMAIN raw.data |->
                    [j \in DOMAIN raw.data[i].values |->
                        raw.data[i].values[j].str]]))

(***************************************************************************)
(* State.                                                                  *)
(*   state, pc, inflight, minted, out : one Gradio session (app.py)        *)
(*   last                             : one operation of a GenieHandler    *)
(*   sent                             : the requests of the current second *)
(*   get                              : one session.get                    *)
(*   xf                               : one transform_query_result         *)
(*   turn                             : one _format_response               *)
(***************************************************************************)
VARIABLES state, pc, inflight, minted, out, last, sent, get, xf, turn

vars == <<state, pc, inflight, minted, out, last, sent, get, xf, turn>>

(***************************************************************************)
(* session.get on its own: the service's answers are drawn from Scripts.   *)
(***************************************************************************)
NoHttp == [kind |-> "none", exc |-> "", status |-> 0, attempts |-> 0]

InitGet == get = [called |-> FALSE, script |-> <<>>, http |-> NoHttp]

SessionGet ==
    /\ ~get.called
    /\ \E script \in Scripts :
        get' = [called |-> TRUE, script |-> script, http |-> session_get(script)]

\* The requests after the first one.
Retries(g) == g.http.attempts - 1

(***************************************************************************)
(* transform_query_result on its own: the argument is what                 *)
(* get_query_result returned, a raw result or None.                        *)
(***************************************************************************)
InitTransform ==
    xf = [called |-> FALSE, query_result |-> ReturnNone, result |-> ReturnNone]

TransformQueryResult ==
    /\ ~xf.called
    /\ \E q \in {Value(raw) : raw \in RawResults} \cup {ReturnNone} :
        xf' = [called |-> TRUE, query_result |-> q,
               result |-> transform_query_result(q)]

(***************************************************************************)
(* The operations of one GenieHandler, each applied to the handler as      *)
(* constructed: the handler keeps nothing from one call to the next.       *)
(***************************************************************************)
\* The outcomes of session.get over all the service may answer.
HttpOutcomes == {session_get(script) : script \in Scripts}

IsOk(http) == http.kind = "response" /\ http.status = 200

\* A reply to a GET operation: how session.get ended, whether the body of
\* a 200 parses as JSON, and the parsed body.
GetReplies(Bodies, nobody) ==
    {[http |-> h, is_json |-> TRUE, body |-> b] :
        h \in {x \in HttpOutcomes : IsOk(x)}, b \in Bodies}
        \cup {[http |-> h, is_json |-> FALSE, body |-> nobody] :
                h \in HttpOutcomes}

NoRooms == [has_data_rooms |-> FALSE, data_rooms |-> <<>>]

NoQuestions == [has_curated_questions |-> FALSE, curated_questions |-> <<>>]

NoRaw == RawResult("statement_response", <<>>, <<>>)

AttachmentLists == SeqsUpTo(Attachments, MaxAttachments)

\* The bodies of GET .../messages/{id}: a message as JSON.
MessageBodies ==
    {[status |-> st, conversation_id |-> 1, id |-> 1, has_attachments |-> TRUE,
      attachments |-> a] : st \in MessageStatus, a \in AttachmentLists}
        \cup {[status |-> st, conversation_id |-> 1, id |-> 1,
               has_attachments |-> FALSE, attachments |-> <<>>] :
                st \in MessageStatus}

NoMessage == as_dict(GenieMessage("FAILED", 0, 0, <<>>))

\* What a *_and_wait call of the SDK may end with, for conversation cid and
\* message id mid.
SdkOutcomes(cid, mid) ==
    {SdkReturn(GenieMessage(st, cid, mid, a)) :
        st \in MessageStatus, a \in AttachmentLists}
        \cup {SdkRaise}

NoCall == [op |-> "", http |-> NoHttp, is_json |-> FALSE, sdk |-> SdkRaise,
           result |-> ReturnNone]

GetCall(name, r, result) ==
    [op |-> name, http |-> r.http, is_json |-> r.is_json, sdk |-> SdkRaise,
     result |-> result]

SdkCall(name, sdk, result) ==
    [op |-> name, http |-> NoHttp, is_json |-> FALSE, sdk |-> sdk,
     result |-> result]

InitClient == last = NoCall

GetGenieRooms ==
    /\ last = NoCall
    /\ \E r \in GetReplies(RoomsBodies, NoRooms) :
          last' = GetCall("get_genie_rooms", r,
                          get_genie_rooms(r.http, r.is_json, r.body))

GetCuratedQuestions ==
    /\ last = NoCall
    /\ \E r \in GetReplies(QuestionsBodies, NoQuestions) :
          last' = GetCall("get_curated_questions", r,
                          get_curated_questions(r.http, r.is_json, r.body))

GetMessage ==
    /\ last = NoCall
    /\ \E r \in GetReplies(MessageBodies, NoMessage) :
          last' = GetCall("get_message", r,
                          get_message(r.http, r.is_json, r.body))

GetQueryResult ==
    /\ last = NoCall
    /\ \E r \in GetReplies(RawResults, NoRaw) :
          last' = GetCall("get_query_result", r,
                          get_query_result(r.http, r.is_json, r.body))

StartConversation ==
    /\ last = NoCall
    /\ \E sdk \in SdkOutcomes(1, 1) :
          last' = SdkCall("start_conversation", sdk, start_conversation(sdk))

CreateMessage ==
    /\ last = NoCall
    /\ \E sdk \in SdkOutcomes(1, 1) :
          last' = SdkCall("create_message", sdk, create_message(sdk))

(***************************************************************************)
(* The requests the GET operations send, second by second.  Each of        *)
(* get_genie_rooms, get_curated_questions, get_message and                 *)
(* get_query_result calls self.session.get: none goes through              *)
(* _make_request, the method that @sleep_and_retry and                     *)
(* @limits(calls=CALLS_PER_SECOND, period=1) decorate.                     *)
(***************************************************************************)
GetOperations == {"get_genie_rooms", "get_curated_questions", "get_message",
                  "get_query_result"}

InitSent == sent = <<>>

\* A GET operation sends its request: nothing holds it back.
SendRequest ==
    /\ Len(sent) < MaxPeriodCalls
    /\ \E op \in GetOperations : sent' = Append(sent, op)

\* One second passes: a new period starts.
Tick == sent # <<>> /\ sent' = <<>>

(***************************************************************************)
(* _format_response, as the two functions it is on either side of its call *)
(* of get_query_result.                                                    *)
(***************************************************************************)
Truthy(str) == str # Absent /\ str # ""

\* A reply of a handler to the UI.  kind: "text" (TextReply), "table"
\* (description and Dataframe; col_count and row_count are the Dataframe's),
\* "placeholder" (a fixed text: nothing to render), "invalid" (the input
\* was refused), "error" (an exception ended the handler; text names it),
\* "ok" (the handler of a form returned).
Reply(handler, kind, text) ==
    [handler |-> handler, kind |-> kind, text |-> text, col_count |-> 0,
     row_count |-> 0]

NoReply == Reply("", "", "")

\* response.get("attachments", [{}])[0]
AttachmentsShape(response) ==
    IF ~response.has_attachments THEN "missing"
    ELSE IF response.attachments = <<>> THEN "empty"
    ELSE "first"

FirstAttachment(response) ==
    IF AttachmentsShape(response) = "first"
    THEN response.attachments[1]
    ELSE EmptyAttachment

Replied(reply) == [next |-> "reply", reply |-> reply]

\* _format_response up to its call of get_query_result: the reply, or the
\* need to fetch the query result.
format_response(response) ==
    LET att == FirstAttachment(response) IN
    IF AttachmentsShape(response) = "empty"
    THEN Replied(Reply("handle_message", "error", "IndexError"))
    ELSE IF Truthy(att.text)
    THEN Replied(Reply("handle_message", "text", att.text))
    ELSE IF att.has_query
    THEN IF ~Truthy(att.description)
         THEN Replied(Reply("handle_message", "placeholder",
                            "No query description available"))
         ELSE [next |-> "get_query_result",
               reply |-> Reply("handle_message", "", att.description)]
    ELSE Replied(Reply("handle_message", "placeholder",
                       "No response content available"))

\* _format_response from the return of get_query_result:
\* transform_query_result and the Dataframe.  An exception of either ends
\* handle_message in its except branch.
table_reply(description, query_result) ==
    IF query_result.kind = "raise"
    THEN Reply("handle_message", "error", query_result.exc)
    ELSE LET t == transform_query_result(query_result) IN
         IF t.kind = "raise"
         THEN Reply("handle_message", "error", t.exc)
         ELSE [handler |-> "handle_message", kind |-> "table",
               text |-> description,
               col_count |-> Len(t.value.columns),
               row_count |-> Len(t.value.rows)]

\* What get_query_result may return, over all the service may answer.
QueryResults ==
    {get_query_result(r.http, r.is_json, r.body) :
        r \in GetReplies(RawResults, NoRaw)}

(***************************************************************************)
(* _format_response on its own, applied to a message as                    *)
(* start_conversation and create_message return it.                        *)
(***************************************************************************)
Responses ==
    {as_dict(GenieMessage("COMPLETED", 1, 1, a)) : a \in AttachmentLists}

InitTurn ==
    turn = [stage |-> "", response |-> NoMessage, query_result |-> ReturnNone,
            reply |-> NoReply]

FormatResponse ==
    /\ turn.stage = ""
    /\ \E response \in Responses :
          LET f == format_response(response) IN
          turn' = [turn EXCEPT !.stage = f.next, !.response = response,
                               !.reply = f.reply]

FetchQueryResult ==
    /\ turn.stage = "get_query_result"
    /\ \E q \in QueryResults :
          turn' = [turn EXCEPT !.stage = "fetched", !.query_result = q,
                               !.reply = table_reply(turn.reply.text, q)]

(***************************************************************************)
(* One Gradio session: the AppState and the handlers of app.py.            *)
(***************************************************************************)
Tokens == {"dapi-token"}

\* The turns of one session that may run at the same time.
Threads == {1, 2}

Messages == {"", "How many orders?"}

\* What the token-check endpoint may answer; 0: no answer (requests.get
\* raises).
ProbeAnswers == {0, 200, 401, 403, 500}

BaseQuestions == <<[question_text |-> "Explain the data set"]>>

NoFlight == [op |-> "", room |-> 0, conversation |-> 0, message |-> 0,
             description |-> ""]

Flight(op, room, conv, mid, d) ==
    [op |-> op, room |-> room, conversation |-> conv, message |-> mid,
     description |-> d]

AppState ==
    [user_token |-> "", user_authenticated |-> FALSE,
     genie_rooms |-> Value(<<>>), selected_genie_room_id |-> 0,
     current_conversation_id |-> 0,
     current_curated_questions |-> <<>>]

\* What is recorded of a reply: the handler it came from and its kind.
Shown(reply) == [handler |-> reply.handler, kind |-> reply.kind]

\* out: what the UI last received (reply, as Shown records it, and the
\* choices of the rooms dropdown) and probe, the answer of the token-check
\* endpoint to the submission that was last accepted.
InitApp ==
    /\ state = AppState
    /\ pc = [t \in Threads |-> "idle"]
    /\ inflight = [t \in Threads |-> NoFlight]
    /\ minted = [c \in 1..MaxConversations |-> 0]
    /\ out = [reply |-> Shown(NoReply), choices |-> <<>>, probe |-> 0]

\* validate_token refusing only a 401.
validate_token_not_401(status) == status # 401

\* validate_token: the answer of the token-check endpoint is 200.
validate_token(status) == status = 200

\* [room["display_name"] for room in genie_rooms if room["display_name"]]
room_choices(rooms) ==
    [i \in DOMAIN rooms |-> rooms[i].display_name]

\* next(room["space_id"] for room in genie_rooms if display_name == name,
\* None); 0 stands for None.
RECURSIVE room_id_of(_, _)
room_id_of(rooms, name) ==
    IF rooms = <<>> THEN 0
    ELSE IF Head(rooms).display_name = name THEN Head(rooms).space_id
    ELSE room_id_of(Tail(rooms), name)

SeqToSet(q) == {q[i] : i \in DOMAIN q}

\* What get_genie_rooms and get_curated_questions may return to a handler,
\* over all the service may answer.
RoomsResults ==
    {get_genie_rooms(r.http, r.is_json, r.body) :
        r \in GetReplies(RoomsBodies, NoRooms)}

QuestionsResults ==
    {get_curated_questions(r.http, r.is_json, r.body) :
        r \in GetReplies(QuestionsBodies, NoQuestions)}

\* handle_token_submission with a token that is refused: gr.Error is
\* raised (or requests.get raises) before the state is touched.
TokenRefused ==
    \E token \in Tokens \cup {""}, probe \in ProbeAnswers :
        /\ token = "" \/ probe = 0 \/ ~validate_token(probe)
        /\ out' = [out EXCEPT !.reply =
                     Shown(Reply("handle_token_submission", "error",
                                 IF token = "" THEN "Token is required"
                                 ELSE IF probe = 0 THEN "ConnectionError"
                                 ELSE "Invalid token"))]
        /\ UNCHANGED <<state, pc, inflight, minted>>

\* handle_token_submission with a token that is accepted: the state is
\* marked authenticated, then the rooms are listed.
TokenAccepted ==
    \E token \in Tokens, probe \in ProbeAnswers, rooms \in RoomsResults :
        /\ probe # 0 /\ validate_token(probe)
        /\ LET authed == [state EXCEPT !.user_token = token,
                                       !.user_authenticated = TRUE]
           IN  IF rooms.kind = "raise"
               THEN /\ state' = authed
                    /\ out' = [out EXCEPT
                         !.reply = Shown(Reply("handle_token_submission",
                                               "error", rooms.exc)),
                         !.probe = probe]
               ELSE IF rooms.kind = "None"
               THEN \* iterating over None: TypeError
                    /\ state' = [authed EXCEPT !.genie_rooms = rooms]
                    /\ out' = [out EXCEPT
                         !.reply = Shown(Reply("handle_token_submission",
                                               "error", "TypeError")),
                         !.probe = probe]
               ELSE /\ state' = [authed EXCEPT !.genie_rooms = rooms]
                    /\ out' = [reply |-> Shown(Reply("handle_token_submission",
                                                     "ok", "")),
                               choices |-> room_choices(rooms.value),
                               probe |-> probe]
        /\ UNCHANGED <<pc, inflight, minted>>

\* handle_room_selection: the name comes from the dropdown's choices.
RoomSelection ==
    \E name \in SeqToSet(out.choices), questions \in QuestionsResults :
        /\ IF state.genie_rooms.kind = "None"
           THEN \* iterating over None: TypeError, before any assignment
                /\ out' = [out EXCEPT !.reply =
                             Shown(Reply("handle_room_selection", "error",
                                         "TypeError"))]
                /\ UNCHANGED state
           ELSE LET room_id == room_id_of(state.genie_rooms.value, name)
                    picked == [state EXCEPT
                                 !.selected_genie_room_id = room_id,
                                 !.current_conversation_id = 0]
                    curated == IF room_id = 0
                               THEN \* _build_url: None.strip
                                    Raise("AttributeError")
                               ELSE questions
                IN  IF curated.kind = "raise"
                    THEN /\ state' = picked
                         /\ out' = [out EXCEPT !.reply =
                                      Shown(Reply("handle_room_selection",
                                                  "error", curated.exc))]
                    ELSE /\ state' = [picked EXCEPT
                                !.current_curated_questions =
                                    BaseQuestions \o
                                    (IF curated.kind = "None" THEN <<>>
                                     ELSE curated.value)]
                         /\ out' = [out EXCEPT !.reply =
                                      Shown(Reply("handle_room_selection",
                                                  "ok", ""))]
        /\ UNCHANGED <<pc, inflight, minted>>

\* _validate_chat_state
validate_chat_state(st, message) ==
    /\ st.user_token # ""
    /\ st.selected_genie_room_id # 0
    /\ message # ""

\* The end of handle_message: the reply goes to the UI.
Finish(t, st, reply) ==
    /\ state' = st
    /\ pc' = [pc EXCEPT ![t] = "idle"]
    /\ inflight' = [inflight EXCEPT ![t] = NoFlight]
    /\ out' = [out EXCEPT !.reply = Shown(reply)]

\* handle_message up to the call of the SDK in _process_message.
BeginTurn(t) ==
    /\ pc[t] = "idle"
    /\ \E message \in Messages :
          IF ~validate_chat_state(state, message)
          THEN /\ out' = [out EXCEPT !.reply =
                            Shown(Reply("handle_message", "invalid",
                                        "Please check your input and try again"))]
               /\ UNCHANGED <<state, pc, inflight>>
          ELSE /\ LET op == IF state.current_conversation_id = 0
                            THEN "start_conversation"
                            ELSE "create_message"
                  IN  /\ pc' = [pc EXCEPT ![t] = op]
                      /\ inflight' = [inflight EXCEPT ![t] =
                            Flight(op, state.selected_genie_room_id,
                                   state.current_conversation_id, 0, "")]
               /\ UNCHANGED <<state, out>>
    /\ UNCHANGED minted

\* What a call of the SDK comes to in handle_message: whether the service
\* returned a message, what the operation made of it (None, or a message)
\* and, of a message, what _format_response does with it.
Ending(sdk, result) ==
    [returned |-> sdk.kind = "return",
     none |-> result.kind = "None",
     f |-> IF result.kind = "None" THEN Replied(NoReply)
           ELSE format_response(result.value)]

StartEndings ==
    {Ending(sdk, start_conversation(sdk)) : sdk \in SdkOutcomes(0, 0)}

CreateEndings ==
    {Ending(sdk, create_message(sdk)) : sdk \in SdkOutcomes(0, 0)}

\* _format_response in handle_message; st is the state _process_message
\* left and mid the id of the response.  get_query_result is called with
\* the room and the conversation id the state holds at that moment.
Format(t, st, f, mid) ==
    IF f.next = "reply"
    THEN Finish(t, st, f.reply)
    ELSE /\ state' = st
         /\ pc' = [pc EXCEPT ![t] = "get_query_result"]
         /\ inflight' = [inflight EXCEPT ![t] =
               Flight("get_query_result", st.selected_genie_room_id,
                      st.current_conversation_id, mid, f.reply.text)]
         /\ UNCHANGED out

\* The conversation id the service mints next.
FreshConversation ==
    CHOOSE c \in 1..MaxConversations :
        minted[c] = 0 /\ \A d \in 1..(c - 1) : minted[d] # 0

CanMint == \E c \in 1..MaxConversations : minted[c] = 0

\* start_conversation returns: _process_message stores the conversation
\* id of the response, the one the service minted, then _format_response
\* runs.  The message of turn t has id t.
EndStart(t) ==
    /\ pc[t] = "start_conversation"
    /\ \E e \in StartEndings :
          /\ e.returned => CanMint
          /\ minted' = IF e.returned
                       THEN [minted EXCEPT ![FreshConversation] =
                                inflight[t].room]
                       ELSE minted
          /\ IF e.none
             THEN \* None["conversation_id"]: TypeError
                  Finish(t, state, Reply("handle_message", "error", "TypeError"))
             ELSE Format(t,
                     [state EXCEPT !.current_conversation_id =
                                      FreshConversation],
                     e.f, t)

\* create_message returns, then _format_response runs.
EndCreate(t) ==
    /\ pc[t] = "create_message"
    /\ \E e \in CreateEndings :
          IF e.none
          THEN \* None.get: AttributeError
               Finish(t, state,
                      Reply("handle_message", "error", "AttributeError"))
          ELSE Format(t, state, e.f, t)
    /\ UNCHANGED minted

\* The replies a turn may end with once get_query_result has returned.
TableReplies == {Shown(table_reply("", q)) : q \in QueryResults}

\* get_query_result returns; transform_query_result and the Dataframe.
EndQuery(t) ==
    /\ pc[t] = "get_query_result"
    /\ \E reply \in TableReplies : Finish(t, state, reply)
    /\ UNCHANGED minted

(***************************************************************************)
(* Specifications.                                                         *)
(***************************************************************************)
Init ==
    InitApp /\ InitClient /\ InitSent /\ InitGet /\ InitTransform /\ InitTurn

Next ==
    \/ TokenRefused /\ UNCHANGED <<last, sent, get, xf, turn>>
    \/ TokenAccepted /\ UNCHANGED <<last, sent, get, xf, turn>>
    \/ RoomSelection /\ UNCHANGED <<last, sent, get, xf, turn>>
    \/ \E t \in Threads : BeginTurn(t) /\ UNCHANGED <<last, sent, get, xf, turn>>
    \/ \E t \in Threads : EndStart(t) /\ UNCHANGED <<last, sent, get, xf, turn>>
    \/ \E t \in Threads : EndCreate(t) /\ UNCHANGED <<last, sent, get, xf, turn>>
    \/ \E t \in Threads : EndQuery(t) /\ UNCHANGED <<last, sent, get, xf, turn>>

Spec == Init /\ [][Next]_vars

\* A session whose user waits for the reply to a message before sending the
\* next one: its chat turns all run on the first thread.  Token submission
\* and room selection stay free to happen while a turn is in flight.
NextSerial ==
    \/ TokenRefused /\ UNCHANGED <<last, sent, get, xf, turn>>
    \/ TokenAccepted /\ UNCHANGED <<last, sent, get, xf, turn>>
    \/ RoomSelection /\ UNCHANGED <<last, sent, get, xf, turn>>
    \/ BeginTurn(1) /\ UNCHANGED <<last, sent, get, xf, turn>>
    \/ EndStart(1) /\ UNCHANGED <<last, sent, get, xf, turn>>
    \/ EndCreate(1) /\ UNCHANGED <<last, sent, get, xf, turn>>
    \/ EndQuery(1) /\ UNCHANGED <<last, sent, get, xf, turn>>

SpecSerial == Init /\ [][NextSerial]_vars

appVars == <<state, pc, inflight, minted, out>>

NextClient ==
    \/ GetGenieRooms /\ UNCHANGED <<appVars, sent, get, xf, turn>>
    \/ GetCuratedQuestions /\ UNCHANGED <<appVars, sent, get, xf, turn>>
    \/ GetMessage /\ UNCHANGED <<appVars, sent, get, xf, turn>>
    \/ GetQueryResult /\ UNCHANGED <<appVars, sent, get, xf, turn>>
    \/ StartConversation /\ UNCHANGED <<appVars, sent, get, xf, turn>>
    \/ CreateMessage /\ UNCHANGED <<appVars, sent, get, xf, turn>>

SpecClient == Init /\ [][NextClient]_vars

NextSent ==
    \/ SendRequest /\ UNCHANGED <<appVars, last, get, xf, turn>>
    \/ Tick /\ UNCHANGED <<appVars, last, get, xf, turn>>

SpecSent == Init /\ [][NextSent]_vars

NextGet == SessionGet /\ UNCHANGED <<appVars, last, sent, xf, turn>>

SpecGet == Init /\ [][NextGet]_vars

NextTransform ==
    TransformQueryResult /\ UNCHANGED <<appVars, last, sent, get, turn>>

SpecTransform == Init /\ [][NextTransform]_vars

NextTurn ==
    \/ FormatResponse /\ UNCHANGED <<appVars, last, sent, get, xf>>
    \/ FetchQueryResult /\ UNCHANGED <<appVars, last, sent, get, xf>>

SpecTurn == Init /\ [][NextTurn]_vars

(***************************************************************************)
(* Properties.                                                             *)
(***************************************************************************)
TurnEnded == turn.stage \in {"reply", "fetched"}

HasTable(att) == att.has_query /\ Truthy(att.description)

\* C1, as claimed: the reply to a message is a table reply when
\* attachment[0] carries a query with a non-empty description, a text
\* reply when it carries only text.content, and the placeholder (no-op)
\* reply, never an error, when it carries neither.
C1_DisambiguationAsClaimed ==
    TurnEnded =>
        LET att == FirstAttachment(turn.response) IN
        /\ HasTable(att) => turn.reply.kind = "table"
        /\ ~HasTable(att) /\ Truthy(att.text) => turn.reply.kind = "text"
        /\ ~HasTable(att) /\ ~Truthy(att.text) =>
              turn.reply.kind = "placeholder"

TypedFailures == GenieErrors \cup {"ParseError"}

\* C2, as claimed: every remote call of the client ends in a success value
\* or in a typed failure (authentication / API / parse), never in None and
\* never in another exception.
C2_TypedOutcomeAsClaimed ==
    last.op # "" =>
        \/ last.result.kind = "value"
        \/ last.result.kind = "raise" /\ last.result.exc \in TypedFailures

Failed(http) == http.kind = "response" /\ http.status \notin 200..299

\* C3, as claimed: when the room-listing request fails (401 or any other
\* non-2xx), get_genie_rooms surfaces the error to its caller.
C3_ListingFailureAsClaimed ==
    last.op = "get_genie_rooms" /\ Failed(last.http) =>
        last.result.kind = "raise" /\ last.result.exc \in GenieErrors

\* C4, as claimed: start_conversation and create_message return the full
\* message record if and only if the wait-RPC ends with COMPLETED, and any
\* other terminal status is surfaced to the caller.
C4_CompletedAsClaimed ==
    last.op \in {"start_conversation", "create_message"} =>
        LET completed == last.sdk.kind = "return"
                            /\ last.sdk.message.status = "COMPLETED"
        IN  /\ last.result.kind = "value" <=> completed
            /\ completed => last.result.value = as_dict(last.sdk.message)
            /\ last.sdk.kind = "return" /\ ~completed =>
                  /\ last.result.kind = "raise"
                  /\ last.result.exc = last.sdk.message.status

\* C5, as claimed: a 401 reaches the caller of the GET operations as an
\* authentication error and every other non-2xx status as an API error.
C5_ErrorKindAsClaimed ==
    last.op \in GetOperations /\ Failed(last.http) =>
        IF last.http.status = 401
        THEN last.result = Raise("GenieAuthenticationError")
        ELSE last.result = Raise("GenieAPIError")

\* The answers a call was sent a retry after.
Retried(g) == SubSeq(g.script, 1, Retries(g))

ThreeTimes503Then200 ==
    <<HttpResponse(503, FALSE), HttpResponse(503, FALSE),
      HttpResponse(503, FALSE), HttpResponse(200, FALSE)>>

RetryBound == get.called => Retries(get) <= 3

ThreeRetriesThen200 ==
    get.called /\ get.script = ThreeTimes503Then200 =>
        /\ get.http.kind = "response"
        /\ get.http.status = 200
        /\ Retries(get) = 3

\* C6, as claimed: a GET is retried at most 3 times, a response whose
\* status is not 500/502/503/504 is never retried, and three 503 followed
\* by a 200 yield the 200 after exactly 3 retries.
C6_RetryAsClaimed ==
    /\ RetryBound
    /\ ThreeRetriesThen200
    /\ get.called =>
          \A i \in DOMAIN Retried(get) :
              Retried(get)[i].net = "ok" =>
                  Retried(get)[i].status \in {500, 502, 503, 504}

\* C6, amended: a GET is retried at most 3 times; a response is retried
\* only when its status is 500/502/503/504 or when it is a 413/429/503
\* that carries a Retry-After header; three 503 followed by a 200 yield
\* the 200 after exactly 3 retries.
C6_Retry ==
    /\ RetryBound
    /\ ThreeRetriesThen200
    /\ get.called =>
          \A i \in DOMAIN Retried(get) :
              Retried(get)[i].net = "ok" =>
                  \/ Retried(get)[i].status \in {500, 502, 503, 504}
                  \/ /\ Retried(get)[i].status \in {413, 429, 503}
                     /\ Retried(get)[i].retry_after

C6_Witness ==
    /\ get.called
    /\ get.script = ThreeTimes503Then200
    /\ get.http.status = 200
    /\ get.http.attempts = 4

\* C7, as claimed: the requests of the client go through the rate-limited
\* path, so that at most CALLS_PER_SECOND of them are sent in one second.
C7_RateLimitAsClaimed == Len(sent) <= CALLS_PER_SECOND

\* Every row of the raw result holds as many values as the schema has
\* columns.
Rectangular(raw) ==
    \A i \in DOMAIN raw.data : Len(raw.data[i].values) = Len(raw.columns)

ShapePreserved(table) ==
    \A i \in DOMAIN table.rows : Len(table.rows[i]) = Len(table.columns)

EmptyTableReply(description) ==
    table_reply(description, Value(RawResult("", <<>>, <<>>)))

\* C9, as claimed: when the raw query result lacks a key, or is None
\* because get_query_result failed, the turn does not crash, its reply
\* differs from the reply to an empty table, and it shows the description.
C9_ParseFailureAsClaimed ==
    /\ turn.stage = "fetched"
    /\ \/ turn.query_result.kind = "None"
       \/ /\ turn.query_result.kind = "value"
          /\ HasKeyError(turn.query_result.value)
    => LET description == FirstAttachment(turn.response).description IN
       /\ turn.reply.kind # "error"
       /\ turn.reply # EmptyTableReply(description)
       /\ turn.reply.text = description

\* C10: the session is authenticated, and holds a token, only when the
\* token-check endpoint answered 200 to the submission that set them; and
\* validate_token is true of no answer but 200.
C10_AuthenticatedOnlyAfter200 ==
    /\ \A status \in ProbeAnswers : validate_token(status) => status = 200
    /\ state.user_authenticated \/ state.user_token # "" =>
          /\ out.probe = 200
          /\ state.user_authenticated
          /\ state.user_token \in Tokens

C10_Witness ==
    /\ state.user_authenticated
    /\ state.user_token \in Tokens
    /\ out.probe = 200

TurnOps == {"start_conversation", "create_message"}

\* C11, as claimed: an accepted turn calls start_conversation when the
\* session holds no conversation id and create_message with the stored id
\* otherwise, then get_query_result at most once, for the message that
\* call returned; and a conversation id, once a start has stored it, is
\* the one every later turn continues with: no other id replaces it, it is
\* only cleared by a room selection.
C11_CallChainAsClaimed ==
    [][ /\ \A t \in Threads :
            /\ pc[t] = "idle" /\ pc'[t] # "idle" =>
                  /\ pc'[t] = IF state.current_conversation_id = 0
                              THEN "start_conversation"
                              ELSE "create_message"
                  /\ inflight'[t].conversation = state.current_conversation_id
            /\ pc[t] \in TurnOps /\ pc'[t] # pc[t] =>
                  /\ pc'[t] \in {"idle", "get_query_result"}
                  /\ pc'[t] = "get_query_result" => inflight'[t].message = t
            /\ pc[t] = "get_query_result" /\ pc'[t] # pc[t] =>
                  pc'[t] = "idle"
        /\ /\ state.current_conversation_id # 0
           /\ state'.current_conversation_id # state.current_conversation_id
           => state'.current_conversation_id = 0 /\ pc' = pc
      ]_vars

\* C12, as claimed: two turns of one session that run at the same time do
\* not overwrite each other's state: when a turn's start_conversation
\* returns and the turn stores the conversation id, the id in the session
\* is still the one the turn read when it began.
C12_IndependentTurnsAsClaimed ==
    [][ \A t \in Threads :
            pc[t] = "start_conversation" /\ pc'[t] # pc[t] =>
                state.current_conversation_id = inflight[t].conversation
      ]_vars

\* The fetch of the query result failed, or what it returned cannot be
\* parsed.
QueryFailed(q) ==
    \/ q.kind \in {"None", "raise"}
    \/ q.kind = "value" /\ HasKeyError(q.value)

\* C13, as claimed: when a step of a chat turn fails (here the fetch of
\* the query result fails, or the result cannot be parsed), the turn ends
\* by reporting an error reply.
C13_FailureReportedAsClaimed ==
    turn.stage = "fetched" /\ QueryFailed(turn.query_result) =>
        turn.reply.kind = "error"

\* What get_curated_questions returns when the request succeeds, over all
\* the bodies the service may send.
CuratedSuccesses ==
    {get_curated_questions(session_get(ThreeTimes503Then200), TRUE, b) :
        b \in QuestionsBodies}

Succeeded(call) == IsOk(call.http) /\ call.is_json

\* C14, as claimed: get_curated_questions never reports a successful
\* response as an error, whether curated_questions is there, empty or
\* missing, and never reports a failed request as what a successful one
\* may return.
C14_EmptyIsNotFailureAsClaimed ==
    last.op = "get_curated_questions" =>
        /\ Succeeded(last) => last.result.kind # "raise"
        /\ ~Succeeded(last) => last.result \notin CuratedSuccesses

\* C15, as claimed: every create_message and get_query_result call of a
\* session carries a conversation id together with the room in which that
\* conversation was started.
C15_ConversationInItsRoomAsClaimed ==
    \A t \in Threads :
        inflight[t].op \in {"create_message", "get_query_result"} =>
            /\ inflight[t].conversation # 0
            /\ minted[inflight[t].conversation] = inflight[t].room

====
